---- MODULE Spec2Model ----
(***************************************************************************)
(* InListExpr of datafusion/physical-expr/src/expressions/in_list.rs:      *)
(* construction (InListExpr::new, with the static-list classifier and the  *)
(* set materializer) and evaluation (InListExpr::evaluate, with the        *)
(* set-backed and the list-backed evaluators) of `expr [NOT] IN (list)`.   *)
(*                                                                         *)
(* Values are small integers tagged with their DataType; NullV is the      *)
(* None of an Option (a null scalar, a null array slot).  A three-valued   *)
(* output row is one of "true", "false", "null".                           *)
(***************************************************************************)
EXTENDS Integers, Sequences, FiniteSets, TLC

\* static OPTIMIZER_INSET_THRESHOLD: usize = 30
OPTIMIZER_INSET_THRESHOLD == 30

\* Bounds of the model: special members in front of the padding of a list,
\* rows of a hand-picked batch.
MaxPrefix == 1
MaxRows == 1

\* Option::None: ScalarValue::X(None), a null slot of an array.
NullV == -1

----------------------------------------------------------------------------
(* DataType *)

\* The types both match statements of evaluate have an arm for.
PrimitiveTypes ==
    {"Int8", "Int16", "Int32", "Int64", "UInt8", "UInt16", "UInt32", "UInt64",
     "Float32", "Float64"}

StringTypes == {"Utf8", "LargeUtf8"}

SupportedTypes == PrimitiveTypes \cup {"Boolean"} \cup StringTypes

\* "Null" is DataType::Null; "Struct" stands for the types with no arm.
DataTypes == SupportedTypes \cup {"Null", "Struct"}

----------------------------------------------------------------------------
(* ScalarValue and ColumnarValue *)

ScalarValue(ty, val) == [ty |-> ty, val |-> val]

\* ScalarValue::is_null
is_null(s) == s.val = NullV

Scalar(s) == [cv |-> "Scalar", ty |-> s.ty, val |-> s.val, rows |-> <<>>]
Array(ty, rows) == [cv |-> "Array", ty |-> ty, val |-> NullV, rows |-> rows]
EvalErr == [cv |-> "Err", ty |-> "Null", val |-> NullV, rows |-> <<>>]

----------------------------------------------------------------------------
(* PhysicalExpr: the expression kinds the list and the probe are made of.   *)
(* An expression is a flat record: kind, its output type ty, the literal's  *)
(* value val, and for a cast the kind (inner) and type (ity) of its operand.*)

Literal(s) ==
    [kind |-> "Literal", ty |-> s.ty, val |-> s.val, inner |-> "None", ity |-> s.ty]
Column(ty) ==
    [kind |-> "Column", ty |-> ty, val |-> NullV, inner |-> "None", ity |-> ty]
CastExpr(e, ty) ==
    [kind |-> "Cast", ty |-> ty, val |-> e.val, inner |-> e.kind, ity |-> e.ty]
\* an expression of any other kind; this one fails when evaluated
TryExpr(ty) ==
    [kind |-> "Other", ty |-> ty, val |-> NullV, inner |-> "None", ity |-> ty]

\* The array a column of type ty holds in a batch of the given rows: a column
\* of DataType::Null holds nulls only.
ColumnArray(ty, rows) ==
    IF ty = "Null" THEN [i \in DOMAIN rows |-> NullV] ELSE rows

\* PhysicalExpr::evaluate of the collaborators: a literal is its scalar, a cast
\* of a scalar is the scalar of the target type, a column is its array.
expr_evaluate(e, batch) ==
    CASE e.kind = "Literal" -> Scalar(ScalarValue(e.ty, e.val))
      [] e.kind = "Column" -> Array(e.ty, ColumnArray(e.ty, batch))
      [] e.kind = "Cast" /\ e.inner = "Literal" -> Scalar(ScalarValue(e.ty, e.val))
      [] e.kind = "Cast" /\ e.inner = "Column" -> Array(e.ty, ColumnArray(e.ty, batch))
      [] OTHER -> EvalErr

\* ScalarValue::to_array: one row
to_array(cv) == IF cv.cv = "Scalar" THEN <<cv.val>> ELSE cv.rows

----------------------------------------------------------------------------
(* Construction *)

NoSet == [present |-> FALSE, set |-> {}]
InSet(set) == [present |-> TRUE, set |-> set]

\* check_all_static_filter_expr that takes any cast for a static member
check_all_static_any_cast(list) ==
    \A i \in DOMAIN list : list[i].kind \in {"Cast", "Literal"}

\* check_all_static_filter_expr: every member is a CastExpr whose operand is
\* a Literal, or a Literal.
check_all_static_filter_expr(list) ==
    \A i \in DOMAIN list :
        IF list[i].kind = "Cast"
        THEN list[i].inner = "Literal"
        ELSE list[i].kind = "Literal"

\* cast_static_filter_to_set: the value of the literal, of the cast's operand
\* for a cast (the literal as written, in the literal's own type).
cast_static_filter_to_set(list) ==
    { IF list[i].kind = "Cast"
      THEN ScalarValue(list[i].ity, list[i].val)
      ELSE ScalarValue(list[i].ty, list[i].val) : i \in DOMAIN list }

\* InListExpr::new
InListExpr_new(expr, list, negated) ==
    IF Len(list) > OPTIMIZER_INSET_THRESHOLD /\ check_all_static_filter_expr(list)
    THEN [expr |-> expr, set |-> InSet(cast_static_filter_to_set(list)),
          list |-> list, negated |-> negated]
    ELSE [expr |-> expr, list |-> list, negated |-> negated, set |-> NoSet]

----------------------------------------------------------------------------
(* Results of evaluate: Ok(ColumnarValue::Array(BooleanArray)), an Err that *)
(* is returned, or a panic (unimplemented!) that unwinds out of the call.   *)

Ok(rows) == [kind |-> "Ok", rows |-> rows, msg |-> "", ty |-> ""]
NotImplemented(msg, ty) == [kind |-> "Err", rows |-> <<>>, msg |-> msg, ty |-> ty]
ExprError == [kind |-> "Err", rows |-> <<>>, msg |-> "expression evaluation failed", ty |-> ""]
Panic(msg) == [kind |-> "Panic", rows |-> <<>>, msg |-> msg, ty |-> ""]

\* Option<bool> as an output row
Some(b) == IF b THEN "true" ELSE "false"
None == "null"

\* slice::contains
contains(values, x) == \E i \in DOMAIN values : values[i] = x

\* compare_op_scalar!: the null bitmap of $left is the null bitmap of the
\* result, the value bits are the comparison, $op of each slot and $right.
compare_op_scalar(left, comparison) ==
    [i \in DOMAIN left |-> IF left[i] = NullV THEN None ELSE Some(comparison[i])]

\* `|x, v| v.contains(&x)` and `|x, v| !v.contains(&x)` over the slots
in_list_op(array, v) == [i \in DOMAIN array |-> contains(v, array[i])]
not_in_list_op(array, v) == [i \in DOMAIN array |-> ~contains(v, array[i])]

in_list_primitive(array, values) == compare_op_scalar(array, in_list_op(array, values))

\* not_in_list_primitive that builds the result without the null bitmap
not_in_list_primitive_no_bitmap(array, values) ==
    [i \in DOMAIN array |-> Some(~contains(values, array[i]))]

not_in_list_primitive(array, values) ==
    compare_op_scalar(array, not_in_list_op(array, values))
in_list_utf8(array, values) == compare_op_scalar(array, in_list_op(array, values))
not_in_list_utf8(array, values) == compare_op_scalar(array, not_in_list_op(array, values))

\* `.any(|v| matches!(v, ColumnarValue::Scalar(s) if s.is_null()))`
list_contains_null(list_values) ==
    \E i \in DOMAIN list_values :
        list_values[i].cv = "Scalar" /\ is_null(list_values[i])

\* The arms of the macros' `match s`: $SCALAR_VALUE(Some(v)), $SCALAR_VALUE(None)
\* and Utf8(None) are taken, anything else is unimplemented!.
primitive_arm(v, SCALAR_VALUE) ==
    v.ty = SCALAR_VALUE \/ (v.ty = "Utf8" /\ v.val = NullV)

\* The arms of compare_utf8's `match s`: Utf8 and LargeUtf8, Some or None.
utf8_arm(v) == v.ty \in {"Utf8", "LargeUtf8"}

\* The members on which `.flat_map(..).collect()` panics, in list order:
\* arrays, and scalars no arm of `match s` takes.
unimplemented_at(list_values, SCALAR_VALUE) ==
    {i \in DOMAIN list_values :
        \/ list_values[i].cv = "Array"
        \/ IF SCALAR_VALUE \in StringTypes
           THEN ~utf8_arm(list_values[i])
           ELSE ~primitive_arm(list_values[i], SCALAR_VALUE)}

first_unimplemented(list_values, SCALAR_VALUE) ==
    LET bad == unimplemented_at(list_values, SCALAR_VALUE)
        i == CHOOSE k \in bad : \A j \in bad : k <= j
    IN IF list_values[i].cv = "Array"
       THEN Panic("not implemented: InList does not yet support nested columns.")
       ELSE Panic("not implemented: Unexpected type for InList")

\* `.flat_map(..).collect::<Vec<_>>()`: the values of the non-null scalars
collect_values(list_values) ==
    LET some == SelectSeq(list_values, LAMBDA v : v.val # NullV)
    IN [i \in DOMAIN some |-> some[i].val]

\* make_contains!: the Boolean evaluator
make_contains(array, list_values, negated, SCALAR_VALUE) ==
    LET contains_null == list_contains_null(list_values)
        values == collect_values(list_values)
        row(x) ==
            IF x = NullV THEN None
            ELSE IF contains(values, x)
                 THEN (IF negated THEN Some(FALSE) ELSE Some(TRUE))
                 ELSE IF contains_null THEN None
                 ELSE IF negated THEN Some(TRUE)
                 ELSE Some(FALSE)
    IN IF unimplemented_at(list_values, SCALAR_VALUE) # {}
       THEN first_unimplemented(list_values, SCALAR_VALUE)
       ELSE Ok([i \in DOMAIN array |-> row(array[i])])

\* make_contains_primitive!: the evaluator of the integer and float types
make_contains_primitive(array, list_values, negated, SCALAR_VALUE) ==
    LET contains_null == list_contains_null(list_values)
        values == collect_values(list_values)
        negated_row(x) ==
            IF x = NullV THEN None
            ELSE IF ~contains(values, x) THEN None ELSE Some(FALSE)
        row(x) ==
            IF x = NullV THEN None
            ELSE IF ~contains(values, x) THEN None ELSE Some(TRUE)
    IN IF unimplemented_at(list_values, SCALAR_VALUE) # {}
       THEN first_unimplemented(list_values, SCALAR_VALUE)
       ELSE IF negated
       THEN IF contains_null
            THEN Ok([i \in DOMAIN array |-> negated_row(array[i])])
            ELSE Ok(not_in_list_primitive(array, values))
       ELSE IF contains_null
            THEN Ok([i \in DOMAIN array |-> row(array[i])])
            ELSE Ok(in_list_primitive(array, values))

\* InListExpr::compare_utf8
compare_utf8(array, list_values, negated) ==
    LET contains_null == list_contains_null(list_values)
        values == collect_values(list_values)
        negated_row(x) ==
            IF x = NullV THEN None
            ELSE IF ~contains(values, x) THEN None ELSE Some(FALSE)
        row(x) ==
            IF x = NullV THEN None
            ELSE IF ~contains(values, x) THEN None ELSE Some(TRUE)
    IN IF unimplemented_at(list_values, "Utf8") # {}
       THEN first_unimplemented(list_values, "Utf8")
       ELSE IF negated
       THEN IF contains_null
            THEN Ok([i \in DOMAIN array |-> negated_row(array[i])])
            ELSE Ok(not_in_list_utf8(array, values))
       ELSE IF contains_null
            THEN Ok([i \in DOMAIN array |-> row(array[i])])
            ELSE Ok(in_list_utf8(array, values))

\* `v.try_into().unwrap()`: the ScalarValue of a native value.  The slots of a
\* GenericStringArray<i32> and of a GenericStringArray<i64> are both &str, and
\* &str has one conversion, to ScalarValue::Utf8.
native_into_scalar(ty, v) ==
    IF ty \in StringTypes THEN ScalarValue("Utf8", v) ELSE ScalarValue(ty, v)

\* set_contains_with_negated! that takes the IN branch whatever the flag
set_contains_ignoring_negated(ty, array, set, negated) ==
    Ok([i \in DOMAIN array |->
            IF array[i] = NullV THEN None
            ELSE Some(native_into_scalar(ty, array[i]) \in set)])

\* set_contains_with_negated!
set_contains_with_negated(ty, array, set, negated) ==
    IF negated
    THEN Ok([i \in DOMAIN array |->
                IF array[i] = NullV THEN None
                ELSE Some(~(native_into_scalar(ty, array[i]) \in set))])
    ELSE Ok([i \in DOMAIN array |->
                IF array[i] = NullV THEN None
                ELSE Some(native_into_scalar(ty, array[i]) \in set)])

\* the set branch without its fallthrough arm
evaluate_in_set_any_type(self, value) ==
    set_contains_with_negated(value.ty, to_array(value), self.set.set, self.negated)

\* InListExpr::evaluate, the branch of a node with a set
evaluate_in_set(self, value) ==
    LET array == to_array(value)
        value_data_type == value.ty
    IN IF value_data_type \in SupportedTypes
       THEN set_contains_with_negated(value_data_type, array, self.set.set, self.negated)
       ELSE NotImplemented("InSet does not support datatype", value_data_type)

\* InListExpr::evaluate, the branch of a node without a set
evaluate_in_list(self, value, batch) ==
    LET list_values == [i \in DOMAIN self.list |-> expr_evaluate(self.list[i], batch)]
        array == to_array(value)
        value_data_type == value.ty
    IN IF \E i \in DOMAIN list_values : list_values[i].cv = "Err"
       THEN ExprError
       ELSE CASE value_data_type \in PrimitiveTypes ->
                    make_contains_primitive(array, list_values, self.negated, value_data_type)
              [] value_data_type = "Boolean" ->
                    make_contains(array, list_values, self.negated, "Boolean")
              [] value_data_type \in StringTypes ->
                    compare_utf8(array, list_values, self.negated)
              [] value_data_type = "Null" ->
                    Ok([i \in DOMAIN array |-> None])
              [] OTHER ->
                    NotImplemented("InList does not support datatype", value_data_type)

\* InListExpr::evaluate
evaluate(self, batch) ==
    LET value == expr_evaluate(self.expr, batch)
    IN IF value.cv = "Err" THEN ExprError
       ELSE IF self.set.present
       THEN evaluate_in_set(self, value)
       ELSE evaluate_in_list(self, value, batch)

----------------------------------------------------------------------------
(* The inputs: probe expressions, candidate lists, batches *)

\* The probe: a column of every type, a literal (a scalar probe, null or not)
\* and an expression whose evaluation fails.
Probes ==
    {Column(ty) : ty \in DataTypes}
        \cup {Literal(ScalarValue("Int64", 0)), Literal(ScalarValue("Int64", NullV)),
              TryExpr("Int64")}

\* The type the planner gives the list members of a probe of type ty, and a
\* type that differs from it.
MemberType(ty) == IF ty \in SupportedTypes THEN ty ELSE "Int64"
OtherType(ty) ==
    CASE ty = "Utf8" -> "LargeUtf8"
      [] ty = "LargeUtf8" -> "Utf8"
      [] ty = "Int64" -> "Int32"
      [] OTHER -> "Int64"

\* The members a list starts with: a value, a null of the probe's type, the
\* untyped NULL of the tests (Utf8(None)), a value and a null of another type,
\* a cast of a literal of another type, a column, a cast of a column, and an
\* expression of another kind.
Members(ty) ==
    LET m == MemberType(ty)
        o == OtherType(m)
    IN {Literal(ScalarValue(m, 0)), Literal(ScalarValue(m, NullV)),
        Literal(ScalarValue("Utf8", NullV)),
        Literal(ScalarValue(o, 0)), Literal(ScalarValue(o, NullV)),
        CastExpr(Literal(ScalarValue(o, 0)), m),
        Column(m), CastExpr(Column(o), m), TryExpr(m)}

SeqsUpTo(S, n) == UNION {[1..k -> S] : k \in 0..n}

\* The rest of a list: n literals of the probe's type with n distinct values,
\* n literals with two values by turns, or n casts of literals of another
\* type.  No padding value is 0.
PadKinds == {"distinct", "repeat", "cast"}
PadLens == {OPTIMIZER_INSET_THRESHOLD - 1, OPTIMIZER_INSET_THRESHOLD}
Pad(kind, n, ty) ==
    LET m == MemberType(ty)
    IN [i \in 1..n |->
            CASE kind = "distinct" -> Literal(ScalarValue(m, i + 1))
              [] kind = "repeat" -> Literal(ScalarValue(m, 2 + (i % 2)))
              [] OTHER -> CastExpr(Literal(ScalarValue(OtherType(m), i + 1)), m)]

Lists(ty) ==
    {pre \o pad :
        pre \in SeqsUpTo(Members(ty), MaxPrefix),
        pad \in {<<>>} \cup {Pad(k, n, ty) : k \in PadKinds, n \in PadLens}}

\* The rows of the probe column in a batch: null, 0 (the value of the members
\* in front, of no padding) and 2 (a value of every padding).
RowValues == {NullV, 0, 2}
Batches == SeqsUpTo(RowValues, MaxRows) \cup {<<NullV, 0, 2>>}

\* The batch whose probe column holds the values of the list's members.
list_batch(list) == [i \in DOMAIN list |-> list[i].val]

----------------------------------------------------------------------------
(* The state machine *)

VARIABLES
    args,       \* the arguments of InListExpr::new
    node,       \* <<>> before construction, then <<the InListExpr>>
    batch,      \* the rows of the probe column in the last batch evaluated
    result,     \* what the last evaluate call returned
    calls       \* concurrent calls: what each thread's evaluate call holds

vars == <<args, node, batch, result, calls>>

NoResult == [kind |-> "None", rows |-> <<>>, msg |-> "", ty |-> ""]

Init ==
    /\ \E e \in Probes, n \in BOOLEAN :
            \E l \in Lists(e.ty) : args = [expr |-> e, list |-> l, negated |-> n]
    /\ node = <<>>
    /\ batch = <<>>
    /\ result = NoResult
    /\ calls = <<>>

\* InListExpr::new(expr, list, negated)
New ==
    /\ node = <<>>
    /\ node' = <<InListExpr_new(args.expr, args.list, args.negated)>>
    /\ UNCHANGED <<args, batch, result, calls>>

\* self.evaluate(batch): the node is borrowed immutably.  A behaviour is one
\* construction and one call.
Evaluate(b) ==
    /\ node # <<>>
    /\ result = NoResult
    /\ batch' = b
    /\ result' = evaluate(node[1], b)
    /\ UNCHANGED <<args, node, calls>>

Next ==
    \/ New
    \/ \E b \in Batches : Evaluate(b)
    \/ node # <<>> /\ Evaluate(list_batch(node[1].list))

Spec == Init /\ [][Next]_vars

----------------------------------------------------------------------------
(* Several threads calling evaluate on one node.  A call is two steps: the  *)
(* evaluation of the probe on the thread's batch, then the branch on        *)
(* self.set and the computation of the result.  A thread makes up to        *)
(* MaxCalls calls, one after the other.                                     *)

Threads == {"t1", "t2"}
MaxCalls == 2

\* The nodes the threads share: an Int64 column, a Utf8 column or a failing
\* expression as the probe; a value, a null, a failing expression or a column
\* as the first member; one member or thirty-one.
CallProbes == {Column("Int64"), Column("Utf8"), TryExpr("Int64")}
CallLists(ty) ==
    {<<m>> \o pad :
        m \in {Literal(ScalarValue(ty, 0)), Literal(ScalarValue(ty, NullV)),
               TryExpr(ty), Column(ty)},
        pad \in {<<>>, Pad("distinct", OPTIMIZER_INSET_THRESHOLD, ty)}}
CallBatches == {<<0>>, <<NullV, 2>>}

\* what a thread holds of its call: where it is, its batch, the probe's
\* value, the branch it took, what the call returned, the calls it has
\* finished, and whether the call began while another thread was in a call
Idle ==
    [pc |-> "idle", batch |-> <<>>, value |-> EvalErr, branch |-> "none",
     result |-> NoResult, n |-> 0, overlapped |-> FALSE]

InitCalls ==
    /\ \E e \in CallProbes, n \in BOOLEAN :
            \E l \in CallLists(e.ty) : args = [expr |-> e, list |-> l, negated |-> n]
    /\ node = <<>>
    /\ batch = <<>>
    /\ result = NoResult
    /\ calls = [t \in Threads |-> Idle]

\* a variant of CallBegin that keeps the probe's value in a slot all the
\* threads share
CallBeginSharedValue(t, b) ==
    /\ node # <<>>
    /\ calls[t].pc = "idle"
    /\ calls[t].n < MaxCalls
    /\ LET value == expr_evaluate(node[1].expr, b)
           begun == [pc |-> "probed", batch |-> b, value |-> value, branch |-> "none",
                     result |-> NoResult, n |-> calls[t].n,
                     overlapped |-> \E u \in Threads \ {t} : calls[u].pc = "probed"]
       IN calls' = [u \in Threads |->
                        IF u = t
                        THEN IF value.cv = "Err"
                             THEN [begun EXCEPT !.pc = "idle", !.result = ExprError,
                                                !.n = @ + 1]
                             ELSE begun
                        ELSE [calls[u] EXCEPT !.value = value]]
    /\ UNCHANGED <<args, node, batch, result>>

\* thread t enters self.evaluate(b): let value = self.expr.evaluate(batch)?
CallBegin(t, b) ==
    /\ node # <<>>
    /\ calls[t].pc = "idle"
    /\ calls[t].n < MaxCalls
    /\ LET value == expr_evaluate(node[1].expr, b)
           begun == [pc |-> "probed", batch |-> b, value |-> value, branch |-> "none",
                     result |-> NoResult, n |-> calls[t].n,
                     overlapped |-> \E u \in Threads \ {t} : calls[u].pc = "probed"]
       IN calls' = [calls EXCEPT ![t] =
                        IF value.cv = "Err"
                        THEN [begun EXCEPT !.pc = "idle", !.result = ExprError,
                                           !.n = @ + 1]
                        ELSE begun]
    /\ UNCHANGED <<args, node, batch, result>>

\* a variant of CallReturn that builds the set of a static list at the first
\* call
CallReturnBuildingSet(t) ==
    /\ node # <<>>
    /\ calls[t].pc = "probed"
    /\ LET self == IF check_all_static_filter_expr(node[1].list)
                   THEN [node[1] EXCEPT
                            !.set = InSet(cast_static_filter_to_set(node[1].list))]
                   ELSE node[1]
       IN /\ node' = <<self>>
          /\ calls' = [calls EXCEPT ![t] =
                [@ EXCEPT !.pc = "idle",
                          !.branch = IF self.set.present THEN "set" ELSE "list",
                          !.result = IF self.set.present
                                     THEN evaluate_in_set(self, calls[t].value)
                                     ELSE evaluate_in_list(self, calls[t].value,
                                                           calls[t].batch),
                          !.n = @ + 1]]
    /\ UNCHANGED <<args, batch, result>>

\* thread t goes on: if let Some(in_set) = &self.set { .. } else { .. }
CallReturn(t) ==
    /\ node # <<>>
    /\ calls[t].pc = "probed"
    /\ calls' = [calls EXCEPT ![t] =
            [@ EXCEPT !.pc = "idle",
                      !.branch = IF node[1].set.present THEN "set" ELSE "list",
                      !.result = IF node[1].set.present
                                 THEN evaluate_in_set(node[1], calls[t].value)
                                 ELSE evaluate_in_list(node[1], calls[t].value,
                                                       calls[t].batch),
                      !.n = @ + 1]]
    /\ UNCHANGED <<args, node, batch, result>>

NextCalls ==
    \/ New
    \/ \E t \in Threads, b \in CallBatches : CallBegin(t, b)
    \/ \E t \in Threads : CallReturn(t)

SpecCalls == InitCalls /\ [][NextCalls]_vars

----------------------------------------------------------------------------
(* Vocabulary of the properties *)

\* evaluate has returned (or unwound)
Called == node # <<>> /\ result # NoResult

\* the probe's ColumnarValue for the batch, its array, the list's values
ProbeValue == expr_evaluate(node[1].expr, batch)
ProbeArray == to_array(ProbeValue)
ListValues == [i \in DOMAIN node[1].list |-> expr_evaluate(node[1].list[i], batch)]

\* the list has a member that is a null scalar
ListHasNull == \E i \in DOMAIN ListValues : ListValues[i].cv = "Scalar" /\ ListValues[i].val = NullV

\* x equals a non-null member of the list
ListHasValue(x) ==
    \E i \in DOMAIN ListValues :
        /\ ListValues[i].cv = "Scalar"
        /\ ListValues[i].ty = ProbeValue.ty
        /\ ListValues[i].val = x
        /\ x # NullV

\* A well-typed call: the probe is of a supported type and every member is a
\* literal or a cast of a literal whose value is of the probe's type, or is
\* the untyped NULL.
WellTyped ==
    /\ ProbeValue.cv # "Err"
    /\ ProbeValue.ty \in SupportedTypes
    /\ \A i \in DOMAIN ListValues :
          /\ ListValues[i].cv = "Scalar"
          /\ \/ ListValues[i].ty = ProbeValue.ty
             \/ ListValues[i] = Scalar(ScalarValue("Utf8", NullV))

\* three-valued NOT
Not3(r) == CASE r = "true" -> "false" [] r = "false" -> "true" [] OTHER -> "null"

----------------------------------------------------------------------------
(* C1 *)

\* the list with every repeated member dropped
RECURSIVE Distinct(_)
Distinct(l) ==
    IF l = <<>> THEN <<>>
    ELSE LET front == Distinct(SubSeq(l, 1, Len(l) - 1))
             last == l[Len(l)]
         IN IF \E i \in DOMAIN front : front[i] = last THEN front ELSE Append(front, last)

\* C1: a set-backed node returns what the list-backed node returns that is
\* built from the same probe and flag and from the same distinct candidates in
\* a list of at most 30 members, on every batch.
C1_SameRowsAcrossThreshold ==
    (/\ Called
     /\ node[1].set.present
     /\ Len(Distinct(node[1].list)) <= OPTIMIZER_INSET_THRESHOLD)
        => result = evaluate(InListExpr_new(node[1].expr, Distinct(node[1].list),
                                            node[1].negated), batch)

----------------------------------------------------------------------------
(* C2 *)

\* C2: in a well-typed call whose list has a null member, the row of a
\* non-null probe value that equals no non-null member is null, under IN and
\* under NOT IN, whatever the length of the list.
C2_NullDominatesNonMatch ==
    (Called /\ WellTyped /\ ListHasNull)
        => /\ result.kind = "Ok"
           /\ \A i \in DOMAIN ProbeArray :
                 (ProbeArray[i] # NullV /\ ~ListHasValue(ProbeArray[i]))
                    => result.rows[i] = "null"

----------------------------------------------------------------------------
(* C3 *)

\* C3: whenever evaluate returns an array, it has the rows of the probe and
\* every row whose probe value is null is null.
C3_NullProbeRowIsNull ==
    (Called /\ result.kind = "Ok")
        => /\ DOMAIN result.rows = DOMAIN ProbeArray
           /\ \A i \in DOMAIN ProbeArray :
                 ProbeArray[i] = NullV => result.rows[i] = "null"

\* a NOT IN over a list without a null (not_in_list_primitive, which copies
\* the probe's null bitmap) has returned a null row for a null probe row
C3_Witness ==
    /\ Called /\ result.kind = "Ok"
    /\ ~node[1].set.present /\ node[1].negated /\ ~ListHasNull
    /\ ProbeValue.ty \in PrimitiveTypes
    /\ Len(node[1].list) > 0
    /\ \E i \in DOMAIN ProbeArray : ProbeArray[i] = NullV /\ result.rows[i] = "null"

----------------------------------------------------------------------------
(* C4 *)

\* C4: in a well-typed call whose list has no null member, the row of a
\* non-null probe value is true under IN and false under NOT IN when the value
\* equals a member, and false under IN and true under NOT IN when it equals
\* none.
C4_MatchAndNonMatchWithoutNull ==
    (Called /\ WellTyped /\ ~ListHasNull)
        => /\ result.kind = "Ok"
           /\ \A i \in DOMAIN ProbeArray :
                 ProbeArray[i] # NullV
                    => result.rows[i] =
                          Some(ListHasValue(ProbeArray[i]) # node[1].negated)

----------------------------------------------------------------------------
(* C5 *)

\* C5: in a well-typed call whose list has a null member, the row of a
\* non-null probe value that equals a non-null member is true under IN and
\* false under NOT IN.
C5_MatchBeatsNull ==
    (Called /\ WellTyped /\ ListHasNull)
        => /\ result.kind = "Ok"
           /\ \A i \in DOMAIN ProbeArray :
                 ListHasValue(ProbeArray[i])
                    => result.rows[i] = Some(~node[1].negated)

----------------------------------------------------------------------------
(* C6 *)

\* what the node built from the same probe and list with the other flag
\* returns on the same batch
OtherFlagResult ==
    evaluate(InListExpr_new(node[1].expr, node[1].list, ~node[1].negated), batch)

\* C6: the node with the other negated flag ends the same way and, row by
\* row, returns the three-valued NOT of this node's row.
C6_NegationIsThreeValuedNot ==
    Called
        => LET other == OtherFlagResult
           IN /\ other.kind = result.kind
              /\ other.msg = result.msg
              /\ DOMAIN other.rows = DOMAIN result.rows
              /\ \A i \in DOMAIN result.rows : other.rows[i] = Not3(result.rows[i])

\* a list-backed call over a list with a null member has returned a boolean
\* row and, for a non-null probe value, a null row
C6_Witness ==
    /\ Called /\ result.kind = "Ok"
    /\ ~node[1].set.present /\ ListHasNull
    /\ \E i \in DOMAIN result.rows : result.rows[i] = "null" /\ ProbeArray[i] # NullV
    /\ \E i \in DOMAIN result.rows : result.rows[i] # "null"

----------------------------------------------------------------------------
(* C7 *)

\* a member that is a literal, or a cast whose operand is a literal
IsStaticMember(e) ==
    e.kind = "Literal" \/ (e.kind = "Cast" /\ e.inner = "Literal")

\* C7: the node has a set exactly when its list has more than 30 members and
\* every member is a literal or a cast of a literal; the node keeps the probe,
\* the list and the flag it was given.
C7_SetIffLongAndStatic ==
    node # <<>>
        => /\ node[1].set.present
                <=> /\ Len(args.list) >= 31
                    /\ \A i \in DOMAIN args.list : IsStaticMember(args.list[i])
           /\ node[1].expr = args.expr
           /\ node[1].list = args.list
           /\ node[1].negated = args.negated

\* a node built from 31 static members, a cast of a literal among them, has
\* a set
C7_Witness ==
    /\ node # <<>>
    /\ Len(args.list) = 31
    /\ \E i \in DOMAIN args.list : args.list[i].kind = "Cast"
    /\ node[1].set.present

\* a node built from 30 literals has no set
C7_WitnessThirty ==
    /\ node # <<>>
    /\ Len(args.list) = 30
    /\ \A i \in DOMAIN args.list : args.list[i].kind = "Literal"
    /\ ~node[1].set.present

----------------------------------------------------------------------------
(* C8 *)

\* C8: a set-backed node built from more than 30 distinct non-null values of
\* the probe's type (literals or casts of literals), probed with the array of
\* those values, returns true in every row under IN and false in every row
\* under NOT IN.
C8_RoundTripThroughSet ==
    (/\ Called /\ WellTyped /\ ~ListHasNull
     /\ node[1].set.present
     /\ ProbeValue.cv = "Array"
     /\ batch = list_batch(node[1].list)
     /\ \A i, j \in DOMAIN ListValues : ListValues[i] = ListValues[j] => i = j)
        => /\ result.kind = "Ok"
           /\ DOMAIN result.rows = DOMAIN batch
           /\ \A i \in DOMAIN result.rows : result.rows[i] = Some(~node[1].negated)

----------------------------------------------------------------------------
(* C9 *)

NotImplementedMessages ==
    {"InSet does not support datatype", "InList does not support datatype"}

\* C9 as written: a probe of a type outside the thirteen supported types makes
\* evaluate return a NotImplemented error that names the type, set-backed and
\* list-backed.
C9_UnsupportedTypeIsNotImplemented ==
    (Called /\ ProbeValue.cv # "Err" /\ ProbeValue.ty \notin SupportedTypes)
        => /\ result.kind = "Err"
           /\ result.msg \in NotImplementedMessages
           /\ result.ty = ProbeValue.ty

\* C9 as amended: a probe of a type outside the thirteen supported types makes
\* evaluate return an error and no array, except list-backed for
\* DataType::Null: set-backed the error is the InSet NotImplemented error
\* naming the type; list-backed it is the InList NotImplemented error naming
\* the type or, when the evaluation of a list member failed, that failure.
C9_UnsupportedTypeIsError ==
    (/\ Called /\ ProbeValue.cv # "Err" /\ ProbeValue.ty \notin SupportedTypes
     /\ ~(ProbeValue.ty = "Null" /\ ~node[1].set.present))
        => IF node[1].set.present
           THEN result = NotImplemented("InSet does not support datatype", ProbeValue.ty)
           ELSE IF \E i \in DOMAIN ListValues : ListValues[i].cv = "Err"
           THEN result = ExprError
           ELSE result = NotImplemented("InList does not support datatype", ProbeValue.ty)

\* a set-backed node probed with a column of an unsupported type has returned
\* the error
C9_Witness ==
    /\ Called
    /\ node[1].set.present
    /\ ProbeValue.ty = "Struct"
    /\ result.kind = "Err" /\ result.ty = "Struct"

----------------------------------------------------------------------------
(* C10 *)

\* C10: when a list member evaluates to an array, evaluate returns an error to
\* its caller, whatever the type of the probe.
C10_ArrayMemberIsReturnedError ==
    (/\ Called /\ ProbeValue.cv # "Err"
     /\ \E i \in DOMAIN ListValues : ListValues[i].cv = "Array")
        => result.kind = "Err"

----------------------------------------------------------------------------
(* C11 *)

\* every member of the list evaluates without error on the batch
ListEvaluates == \A i \in DOMAIN ListValues : ListValues[i].cv # "Err"

\* C11: when the probe evaluates to DataType::Null and the list's members
\* evaluate, evaluate returns an array of as many rows as the probe array whose
\* rows are all null, set-backed and list-backed.
C11_NullProbeIsAllNull ==
    (Called /\ ProbeValue.cv # "Err" /\ ProbeValue.ty = "Null" /\ ListEvaluates)
        => /\ result.kind = "Ok"
           /\ Len(result.rows) = Len(ProbeArray)
           /\ \A i \in DOMAIN result.rows : result.rows[i] = "null"

----------------------------------------------------------------------------
(* C12 *)

\* every member of the list is a scalar: a value of the probe's type or a null
\* of any type
NullsAndTypedValues ==
    \A i \in DOMAIN ListValues :
        /\ ListValues[i].cv = "Scalar"
        /\ ListValues[i].val = NullV \/ ListValues[i].ty = ProbeValue.ty

\* C12: list-backed, a member that is a null scalar of any type contributes no
\* value and sets list_has_null without a failure: with such a member the call
\* returns an array whose rows are those of the non-null members together with
\* list_has_null = true.
C12_NullMemberOfAnyTypeIsNoValue ==
    (/\ Called /\ ~node[1].set.present
     /\ ProbeValue.cv # "Err" /\ ProbeValue.ty \in SupportedTypes
     /\ NullsAndTypedValues /\ ListHasNull)
        => /\ result.kind = "Ok"
           /\ Len(result.rows) = Len(ProbeArray)
           /\ \A i \in DOMAIN ProbeArray :
                 result.rows[i] =
                    IF ProbeArray[i] # NullV /\ ListHasValue(ProbeArray[i])
                    THEN (IF node[1].negated THEN "false" ELSE "true")
                    ELSE "null"

----------------------------------------------------------------------------
(* C13 *)

\* the other string encoding, and an expression in the other encoding
OtherEncoding(ty) ==
    CASE ty = "Utf8" -> "LargeUtf8" [] ty = "LargeUtf8" -> "Utf8" [] OTHER -> ty
Recode(e) == [e EXCEPT !.ty = OtherEncoding(e.ty), !.ity = OtherEncoding(e.ity)]

\* the probe is a string column and every member is a literal of the probe's
\* encoding
OwnEncoding ==
    /\ node[1].expr.kind = "Column"
    /\ node[1].expr.ty \in StringTypes
    /\ \A i \in DOMAIN node[1].list :
          node[1].list[i].kind = "Literal" /\ node[1].list[i].ty = node[1].expr.ty

\* what the node of the other encoding returns for the same rows, the same
\* list values and the same flag
OtherEncodingResult ==
    evaluate(InListExpr_new(Recode(node[1].expr),
                            [i \in DOMAIN node[1].list |-> Recode(node[1].list[i])],
                            node[1].negated), batch)

\* C13: a Utf8 probe and a LargeUtf8 probe, each with list literals of its own
\* encoding, return the same rows for the same probe rows, list values and
\* flag, list-backed and set-backed.
C13_SameRowsInBothEncodings ==
    (Called /\ OwnEncoding)
        => LET other == OtherEncodingResult
           IN result.kind = other.kind /\ result.rows = other.rows

----------------------------------------------------------------------------
(* C16 *)

\* The input schema: whether the field of the probe column is nullable.
Schemas == {[nullable |-> n] : n \in BOOLEAN}

\* PhysicalExpr::nullable of the collaborators: a column is as nullable as its
\* field, a literal is nullable when its value is null, a cast is as nullable
\* as its operand, any other expression may be null.
expr_nullable(e, input_schema) ==
    CASE e.kind = "Column" -> input_schema.nullable
      [] e.kind = "Literal" -> e.val = NullV
      [] e.kind = "Cast" /\ e.inner = "Column" -> input_schema.nullable
      [] e.kind = "Cast" /\ e.inner = "Literal" -> e.val = NullV
      [] OTHER -> TRUE

\* InListExpr::nullable
nullable(self, input_schema) == expr_nullable(self.expr, input_schema)

\* A batch of the schema: a column whose field is not nullable holds no null.
Conforms(rows, ty, input_schema) ==
    input_schema.nullable \/ \A i \in DOMAIN rows : ColumnArray(ty, rows)[i] # NullV

\* C16: when nullable(schema) is false, no row of the array evaluate returns
\* for a batch of that schema is null, whatever the list and the flag.
C16_NonNullableHasNoNullRow ==
    \A input_schema \in Schemas :
        (/\ Called /\ result.kind = "Ok"
         /\ Conforms(batch, node[1].expr.ty, input_schema)
         /\ ~nullable(node[1], input_schema))
            => \A i \in DOMAIN result.rows : result.rows[i] # "null"

----------------------------------------------------------------------------
(* C14 *)

\* the branch of a node: set-backed or list-backed
Strategy(self) == IF self.set.present THEN "set" ELSE "list"

\* C14: once built, the node (probe, list, flag, presence and contents of the
\* set) is what InListExpr::new made of the arguments, after any sequence of
\* evaluate calls, and every call takes the branch the node was built with.
C14_StrategyFrozen ==
    node # <<>> =>
        /\ node[1] = InListExpr_new(args.expr, args.list, args.negated)
        /\ \A t \in DOMAIN calls :
              calls[t].branch \in {"none", Strategy(InListExpr_new(args.expr, args.list,
                                                                   args.negated))}

\* both threads have made all their calls on a list-backed node whose list is
\* static, and a call returned an array from the list branch
C14_Witness ==
    /\ node # <<>>
    /\ ~node[1].set.present
    /\ check_all_static_filter_expr(node[1].list)
    /\ \A t \in Threads : calls[t].pc = "idle" /\ calls[t].n = MaxCalls
    /\ \E t \in Threads : calls[t].result.kind = "Ok" /\ calls[t].branch = "list"

\* both threads have made all their calls on a set-backed node
C14_WitnessSet ==
    /\ node # <<>>
    /\ node[1].set.present
    /\ \A t \in Threads :
          /\ calls[t].pc = "idle" /\ calls[t].n = MaxCalls
          /\ calls[t].branch = "set"

----------------------------------------------------------------------------
(* C15 *)

\* what the call of thread t returns when it runs alone
Alone(t) ==
    evaluate(InListExpr_new(args.expr, args.list, args.negated), calls[t].batch)

\* C15: under every interleaving of the threads' calls, a call that has
\* returned has returned what it returns when run alone on its batch.
C15_CallsReturnAsAlone ==
    \A t \in DOMAIN calls :
        (calls[t].pc = "idle" /\ calls[t].n > 0) => calls[t].result = Alone(t)

\* two calls on different batches that overlapped have both returned, with
\* different rows
C15_Witness ==
    /\ node # <<>>
    /\ \E t \in Threads, u \in Threads :
          /\ t # u
          /\ calls[t].pc = "idle" /\ calls[t].n > 0 /\ calls[t].overlapped
          /\ calls[u].pc = "idle" /\ calls[u].n > 0
          /\ calls[t].batch # calls[u].batch
          /\ calls[t].result.kind = "Ok" /\ calls[u].result.kind = "Ok"
          /\ calls[t].result.rows # calls[u].result.rows

====
